---- MODULE Spec2Model ----
(***************************************************************************)
(* PieceofMind: the retrieval-augmented drug-interaction pipeline.         *)
(*                                                                         *)
(*   ingest function  (src/unnamed/part_000): canon, chunkText, the label  *)
(*                     fetch, batched embedding and insert into drug_docs  *)
(*   check function   (src/frontend/supabase/functions/check-interactions/ *)
(*                     index.ts): ensureDrugIngested, pair enumeration,    *)
(*                     retrieval, reasoning with fallback, final sort      *)
(*                                                                         *)
(* A handler is a process whose steps are its awaited calls: one action    *)
(* per await, taking the awaited call's outcome as its input.              *)
(***************************************************************************)
EXTENDS Integers, Sequences, FiniteSets, TLC

VARIABLES
    drug_docs,   \* the drug_docs table: the sequence of inserted rows
    ing,         \* the ingest function's requests, by slot
    chk,         \* the check function's request
    env,         \* what the outside world can answer in this run
    calls,       \* external calls issued by the check request, by kind
    fn,          \* a call of chunkText or canon by itself, outside a request
    dash,        \* the dashboard page: its React state and its requests in flight
    api          \* the API server's request POST /api/patients/:id/drugs

vars == <<drug_docs, ing, chk, env, calls, fn, dash, api>>

\* the edge functions' part of the state
functions == <<drug_docs, ing, chk, env, calls, fn>>

Null == "null"
Undefined == "undefined"

-----------------------------------------------------------------------------
(* Bounds of the model.                                                    *)

\* ingest requests that clients start by themselves
MaxIngest == 2
\* longest drug list of a check request whose external calls can each fail
MaxShortList == 3
\* longest drug list of a check request at all (one more than the cap)
MaxLongList == 13
\* longest generative answer, in tokens
MaxReplyLen == 4

-----------------------------------------------------------------------------
(* Strings.  A drug name is a sequence of characters.  Label text is long  *)
(* (thousands of characters) and is kept run-length encoded: a sequence of *)
(* runs [c |-> character, n |-> repetitions], n > 0.                       *)

Min(a, b) == IF a <= b THEN a ELSE b
Max(a, b) == IF a >= b THEN a ELSE b

IsSpace(c) == c \in {" ", "\n"}

\* String.prototype.toLowerCase on the characters of the model
ToLower(c) == IF c = "A" THEN "a" ELSE IF c = "B" THEN "b" ELSE c

\* [a-z0-9]
IsAlnum(c) == c \in {"a", "b", "1"}

\* s.trim() of a character sequence
RECURSIVE TrimLeft(_)
TrimLeft(s) ==
    IF s # <<>> /\ IsSpace(Head(s)) THEN TrimLeft(Tail(s)) ELSE s

RECURSIVE TrimRight(_)
TrimRight(s) ==
    IF s # <<>> /\ IsSpace(s[Len(s)]) THEN TrimRight(SubSeq(s, 1, Len(s) - 1)) ELSE s

TrimName(s) == TrimRight(TrimLeft(s))

\* the character classes of canon's two patterns: [^a-z0-9] and \s
InClass(c, class) == IF class = "nonalnum" THEN ~IsAlnum(c) ELSE IsSpace(c)

\* s.replace(/<class>+/g, ' '): every maximal run of characters of the class
\* becomes one space
RECURSIVE ReplaceRuns(_, _, _)
ReplaceRuns(s, class, inRun) ==
    IF s = <<>> THEN <<>>
    ELSE IF InClass(Head(s), class)
         THEN (IF inRun THEN <<>> ELSE <<" ">>) \o ReplaceRuns(Tail(s), class, TRUE)
         ELSE <<Head(s)>> \o ReplaceRuns(Tail(s), class, FALSE)

LowerCase(s) == [i \in 1..Len(s) |-> ToLower(s[i])]

\* canon: s.toLowerCase().replace(/[^a-z0-9]+/g,' ').trim().replace(/\s+/g,' ')
canon(s) ==
    ReplaceRuns(TrimName(ReplaceRuns(LowerCase(s), "nonalnum", FALSE)), "space", FALSE)

\* canon of the check function, the same expression written a second time
canonCheck(s) ==
    LET lower == LowerCase(s)
        spaced == ReplaceRuns(lower, "nonalnum", FALSE)
        trimmed == TrimName(spaced)
    IN ReplaceRuns(trimmed, "space", FALSE)

\* text.length of run-length encoded text
RECURSIVE TextLen(_)
TextLen(t) == IF t = <<>> THEN 0 ELSE Head(t).n + TextLen(Tail(t))

\* text.slice(from, to) for 0 <= from <= to (to is clamped to the length)
RECURSIVE TextSlice(_, _, _)
TextSlice(t, from, to) ==
    IF t = <<>> \/ to <= 0 \/ from >= to THEN <<>>
    ELSE LET r == Head(t)
             lo == Max(from, 0)
             hi == Min(to, r.n)
             rest == TextSlice(Tail(t), Max(from - r.n, 0), to - r.n)
         IN IF lo < hi THEN <<[c |-> r.c, n |-> hi - lo]>> \o rest ELSE rest

\* text.trim() of run-length encoded text
TextTrim(t) ==
    LET isSp(r) == IsSpace(r.c)
        RECURSIVE dropL(_)
        dropL(s) == IF s # <<>> /\ isSp(Head(s)) THEN dropL(Tail(s)) ELSE s
        RECURSIVE dropR(_)
        dropR(s) == IF s # <<>> /\ isSp(s[Len(s)])
                    THEN dropR(SubSeq(s, 1, Len(s) - 1)) ELSE s
    IN dropR(dropL(t))

\* parts.join('\n\n')
RECURSIVE TextJoin(_)
TextJoin(parts) ==
    IF parts = <<>> THEN <<>>
    ELSE IF Len(parts) = 1 THEN parts[1]
    ELSE parts[1] \o <<[c |-> "\n", n |-> 2]>> \o TextJoin(Tail(parts))

\* chunkText: windows of chunkSize characters, advancing by chunkSize - overlap,
\* each trimmed
RECURSIVE ChunkFrom(_, _, _, _)
ChunkFrom(text, i, chunkSize, overlap) ==
    IF i < TextLen(text)
    THEN <<TextTrim(TextSlice(text, i, i + chunkSize))>>
         \o ChunkFrom(text, i + chunkSize - overlap, chunkSize, overlap)
    ELSE <<>>

\* a chunker whose windows do not overlap
chunkApart(text, chunkSize, overlap) == ChunkFrom(text, 0, chunkSize, 0)

chunkText(text, chunkSize, overlap) == ChunkFrom(text, 0, chunkSize, overlap)

\* no function is called by itself
NoCall == [pc |-> "none"]

\* bounds of the chunker's inputs: the longest text, the largest chunkSize and
\* overlap
MaxTextLen == 5
MaxChunk == 3
MaxNameLen == 3
\* the dashboard: the most medications of a patient, the most add and remove
\* requests in flight
MaxMeds == 3
MaxInFlight == 1
\* the API server: the most medications of the patient a drug is added to
MaxPrior == 3

\* text.slice(from, to): a negative index counts from the end, both are
\* clamped to the text
JsSlice(text, from, to) ==
    LET len == TextLen(text)
        lo == IF from < 0 THEN Max(len + from, 0) ELSE Min(from, len)
        hi == IF to < 0 THEN Max(len + to, 0) ELSE Min(to, len)
    IN TextSlice(text, lo, hi)

\* a call of chunkText, before the loop: let i = 0, out = []; windows is its
\* history, the bounds of every slice taken
ChunkCalled(text, chunkSize, overlap) ==
    [pc |-> "loop", text |-> text, chunkSize |-> chunkSize, overlap |-> overlap,
     i |-> 0, out |-> <<>>, windows |-> <<>>]

\* one turn of chunkText's while loop: the window at i is pushed, trimmed, and
\* i advances.  Turns beyond one per character of the text are not followed.
ChunkLoop ==
    /\ fn.pc = "loop"
    /\ fn.i < TextLen(fn.text)
    /\ Len(fn.out) <= TextLen(fn.text)
    /\ fn' = [fn EXCEPT
                !.out = Append(@, TextTrim(JsSlice(fn.text, fn.i, fn.i + fn.chunkSize))),
                !.windows = Append(@, [from |-> fn.i,
                                       to |-> Min(fn.i + fn.chunkSize, TextLen(fn.text))]),
                !.i = fn.i + fn.chunkSize - fn.overlap]
    /\ UNCHANGED <<drug_docs, ing, chk, env, calls, dash, api>>

\* the loop's test fails: return out
ChunkReturn ==
    /\ fn.pc = "loop"
    /\ ~(fn.i < TextLen(fn.text))
    /\ fn' = [fn EXCEPT !.pc = "returned"]
    /\ UNCHANGED <<drug_docs, ing, chk, env, calls, dash, api>>

\* Two names are about to be keyed: first by the ingest function, which
\* stores the key, then by the check function, which looks the key up.
CanonCalled(s, t) ==
    [pc |-> "canon", s |-> s, t |-> t,
     key |-> <<>>, otherKey |-> <<>>, again |-> <<>>, checkKey |-> <<>>]

\* the ingest function keys both names, and keys its own key once more
CanonIngest ==
    /\ fn.pc = "canon"
    /\ fn' = [fn EXCEPT !.pc = "stored", !.key = canon(fn.s), !.otherKey = canon(fn.t),
                        !.again = canon(canon(fn.s))]
    /\ UNCHANGED <<drug_docs, ing, chk, env, calls, dash, api>>

\* the check function keys the first name
CanonCheck ==
    /\ fn.pc = "stored"
    /\ fn' = [fn EXCEPT !.pc = "keyed", !.checkKey = canonCheck(fn.s)]
    /\ UNCHANGED <<drug_docs, ing, chk, env, calls, dash, api>>

-----------------------------------------------------------------------------
(* The world outside the two functions: the label provider's records, the  *)
(* embedding model, the drug_docs table.                                   *)

X(n) == <<[c |-> "x", n |-> n]>>

NameA == <<"A">>
NameA2 == <<"a", "!">>
NameB == <<"b">>
NameBlank == <<" ">>
NameEmpty == <<>>
NameOne == <<"1">>
\* a name the label provider has no record of
NameNone == <<"b", "1">>

\* One label of drug "a": a 1500-character interactions section (2 chunks) and
\* a two-part warnings section, 4200 characters when joined (6 chunks).
LabelA ==
    [setid |-> "setA", spl_id |-> Null,
     secs |-> [s \in {"drug_interactions", "warnings"} |->
                IF s = "drug_interactions"
                THEN [isArray |-> FALSE, parts |-> <<X(1500)>>]
                ELSE [isArray |-> TRUE, parts |-> <<X(998), X(3200)>>]]]

\* One label of drug "b": a 700-character description (1 chunk), no setid.
LabelB ==
    [setid |-> Null, spl_id |-> "splB",
     secs |-> [s \in {"description"} |-> [isArray |-> FALSE, parts |-> <<X(700)>>]]]

\* One label of drug "1": a single 1500-character interactions section.
LabelOne ==
    [setid |-> "setOne", spl_id |-> Null,
     secs |-> [s \in {"drug_interactions"} |-> [isArray |-> FALSE, parts |-> <<X(1500)>>]]]

\* j.results of the label provider for a drug name
FdaResults(drugName) ==
    IF canon(drugName) = <<"a">> THEN <<LabelA>>
    ELSE IF canon(drugName) = <<"b">> THEN <<LabelB>>
    ELSE IF canon(drugName) = <<"1">> THEN <<LabelOne>>
    ELSE <<>>

\* The embedding model is a function of its input text; the handlers never look
\* into the vector.  Here the vector of a text is its length.
VecOf(text) == <<TextLen(text)>>

\* embedding: null
NoEmbedding == <<>>

\* sb.from('drug_docs').select('id').eq('drug_key', k).limit(1): the ids (row
\* numbers) of at most one matching row
SelectIds(k) ==
    LET hits == {i \in 1..Len(drug_docs) : drug_docs[i].drug_key = k}
    IN IF hits = {} THEN <<>>
       ELSE <<CHOOSE i \in hits : \A j \in hits : i <= j>>

\* rows of a table with this drug_key
CountKey(table, k) == Cardinality({i \in 1..Len(table) : table[i].drug_key = k})

-----------------------------------------------------------------------------
(* The ingest function (src/unnamed/part_000).                             *)

IngestSlots == 1..MaxIngest

sections ==
    <<"drug_interactions", "warnings", "precautions", "contraindications",
      "adverse_reactions", "clinical_pharmacology", "description",
      "indications_and_usage">>

\* the batch size of the embedding loop
batch == 6
\* chunkText(text, 1000, 200)
ChunkSize == 1000
ChunkOverlap == 200

\* A request: its position, its locals (drug .. toInsert), its response, and
\* its history: the key it worked on, whether the table answered its existence
\* query, how the label provider answered its fetch, the requests that had
\* returned when it arrived, the rows it inserted and the key's row count when
\* it returned.
IdleIngest ==
    [pc |-> "idle", caller |-> "none", drug |-> <<>>, drugKey |-> <<>>,
     existing |-> Null, rows |-> <<>>, i |-> 0, outstanding |-> 0,
     toInsert |-> <<>>, resp |-> Null,
     key |-> <<>>, answered |-> FALSE, fetched |-> "none", prior |-> {},
     inserted |-> 0, endCount |-> 0]

\* new Response(...): the status code, what the body says, the chunk count
Response(code, kind, chunks) == [code |-> code, kind |-> kind, chunks |-> chunks]

\* the rows staged for one (label, section): one per chunk, embedding = null
RowsOfSection(drugKey, lab, sec) ==
    IF sec \notin DOMAIN lab.secs THEN <<>>
    ELSE LET raw == lab.secs[sec]
             text == IF raw.isArray THEN TextJoin(raw.parts) ELSE raw.parts[1]
             chunks == chunkText(text, ChunkSize, ChunkOverlap)
             labelId == IF lab.setid # Null THEN lab.setid ELSE lab.spl_id
         IN [c \in 1..Len(chunks) |->
               [drug_key |-> drugKey, label_id |-> labelId, section |-> sec,
                content |-> chunks[c], content_len |-> TextLen(chunks[c]),
                embedding |-> NoEmbedding,
                source_url |-> IF lab.setid # Null THEN labelId ELSE Null]]

RECURSIVE RowsOfLabel(_, _, _)
RowsOfLabel(drugKey, lab, s) ==
    IF s > Len(sections) THEN <<>>
    ELSE RowsOfSection(drugKey, lab, sections[s]) \o RowsOfLabel(drugKey, lab, s + 1)

\* the staging loops over labels and sections
RECURSIVE StageRows(_, _)
StageRows(drugKey, labels) ==
    IF labels = <<>> THEN <<>>
    ELSE RowsOfLabel(drugKey, Head(labels), 1) \o StageRows(drugKey, Tail(labels))

\* a slice that takes every row from i on
RestOfRows(rows, i) == SubSeq(rows, i + 1, Len(rows))

\* a slice of two batches' length
DoubleSlice(rows, i) == SubSeq(rows, i + 1, Min(i + 2 * batch, Len(rows)))

\* rows.slice(i, i + batch), i counted from 0
BatchSlice(rows, i) == SubSeq(rows, i + 1, Min(i + batch, Len(rows)))

\* slice.map((r, idx) => ({ ...r, embedding: embeddings[idx] }))
WithEmbeddings(slice) ==
    [k \in 1..Len(slice) |-> [slice[k] EXCEPT !.embedding = VecOf(slice[k].content)]]

\* the handler returns: its locals are gone (the batch position i stays as
\* history), the response is recorded, with the row count of the request's
\* key in the table at that moment
Respond(r, rec, resp, table) ==
    ing' = [ing EXCEPT ![r] =
              [IdleIngest EXCEPT !.pc = "done", !.caller = rec.caller, !.resp = resp,
                                 !.i = rec.i,
                                 !.key = rec.key, !.answered = rec.answered,
                                 !.fetched = rec.fetched,
                                 !.prior = rec.prior, !.inserted = rec.inserted,
                                 !.endCount = CountKey(table, rec.key)]]

\* the existence guard of the handler
AlreadyIngested(existing) == existing # Null /\ Len(existing) > 0

\* issue the embedding calls of the batch that starts at row i, or finish
\* when no row is left
NextBatch(r, rec, i, table) ==
    IF i < Len(rec.rows)
    THEN ing' = [ing EXCEPT ![r] =
                   [rec EXCEPT !.pc = "embedding", !.i = i,
                               !.outstanding = Len(BatchSlice(rec.rows, i))]]
    ELSE Respond(r, [rec EXCEPT !.i = i], Response(200, "ingested", Len(rec.rows)), table)

\* A request arrives: the method and body checks, canon, and the existence
\* query is issued.
IngestReceive(r, caller, method, bodyDrug) ==
    /\ ing[r].pc = "idle"
    /\ LET drug == TrimName(bodyDrug)
           rec == [IdleIngest EXCEPT
                      !.caller = caller,
                      !.prior = {s \in IngestSlots : ing[s].pc = "done"}]
       IN IF method # "POST"
          THEN Respond(r, rec, Response(405, "POST only", 0), drug_docs)
          ELSE IF drug = <<>>
          THEN Respond(r, rec, Response(400, "drug required", 0), drug_docs)
          ELSE ing' = [ing EXCEPT ![r] =
                         [rec EXCEPT !.pc = "select", !.drug = drug,
                                     !.drugKey = canon(drug), !.key = canon(drug)]]
    /\ UNCHANGED <<drug_docs, env, fn, dash, api>>

\* The existence query answers (storeOk) or fails (data is null); the label
\* fetch is issued unless a row exists.
IngestSelect(r) ==
    /\ ing[r].pc = "select"
    /\ \E storeOk \in env.store :
         LET existing == IF storeOk THEN SelectIds(ing[r].drugKey) ELSE Null
             rec == [ing[r] EXCEPT !.existing = existing, !.answered = storeOk]
         IN IF AlreadyIngested(existing)
            THEN Respond(r, rec, Response(200, "exists", 0), drug_docs)
            ELSE ing' = [ing EXCEPT ![r] = [rec EXCEPT !.pc = "fetch"]]
    /\ UNCHANGED <<drug_docs, chk, env, calls, fn, dash, api>>

\* fetchOpenFdaLabels answers: the fetch throws, the provider answers non-OK
\* (null), or it answers with its results; then the rows are staged and the
\* first batch's embedding calls are issued.
IngestFetch(r) ==
    /\ ing[r].pc = "fetch"
    /\ \E outcome \in env.fetch :
         LET labels == IF outcome = "ok" THEN FdaResults(ing[r].drug) ELSE Null
             rec == [ing[r] EXCEPT !.fetched = outcome]
         IN IF outcome = "throw"
            THEN Respond(r, rec, Response(500, "internal", 0), drug_docs)
            ELSE IF labels = Null \/ Len(labels) = 0
            THEN Respond(r, rec, Response(200, "no-labels-found", 0), drug_docs)
            ELSE NextBatch(r, [rec EXCEPT !.rows = StageRows(rec.drugKey, labels)],
                           0, drug_docs)
    /\ UNCHANGED <<drug_docs, chk, env, calls, fn, dash, api>>

\* Promise.all over the batch's embedding calls settles: every call succeeded
\* and the insert is issued, or one failed and the handler throws.
IngestEmbed(r) ==
    /\ ing[r].pc = "embedding"
    /\ \E allOk \in env.embed :
         IF allOk
         THEN ing' = [ing EXCEPT ![r] =
                        [ing[r] EXCEPT !.pc = "inserting", !.outstanding = 0,
                           !.toInsert = WithEmbeddings(BatchSlice(ing[r].rows, ing[r].i))]]
         ELSE Respond(r, ing[r], Response(500, "internal", 0), drug_docs)
    /\ UNCHANGED <<drug_docs, chk, env, calls, fn, dash, api>>

\* the staged rows of the batch, as they are before their embeddings are set
StagedPayload(rec) == BatchSlice(rec.rows, rec.i)

\* the rows the insert call hands to the table
InsertPayload(rec) == rec.toInsert

\* an insert that leaves out the rows the table has already (same key,
\* section and content)
InsertNewRows(table, rows) ==
    LET isNew(row) == \A n \in 1..Len(table) :
                         \/ table[n].drug_key # row.drug_key
                         \/ table[n].section # row.section
                         \/ table[n].content # row.content
    IN table \o SelectSeq(rows, isNew)

\* a write that puts the rows in the place of the table's rows
ReplaceRows(table, rows) == rows

\* sb.from('drug_docs').insert(toInsert): the rows are added to the table
InsertRows(table, rows) == table \o rows

\* The insert answers: the batch is in the table and the next batch starts, or
\* the table reports an error and the handler answers 500.
IngestInsert(r) ==
    /\ ing[r].pc = "inserting"
    /\ \E storeOk \in env.store :
         IF storeOk
         THEN /\ drug_docs' = InsertRows(drug_docs, InsertPayload(ing[r]))
              /\ NextBatch(r, [ing[r] EXCEPT !.toInsert = <<>>,
                                  !.inserted = @ + Len(InsertPayload(ing[r]))],
                           ing[r].i + batch, drug_docs')
         ELSE /\ UNCHANGED drug_docs
              /\ Respond(r, ing[r], Response(500, "error", 0), drug_docs)
    /\ UNCHANGED <<chk, env, calls, fn, dash, api>>

-----------------------------------------------------------------------------
(* The generative model's answer, as the parser sees it: a sequence of     *)
(* tokens [k, v].  "{" and "}" are the braces, "junk" is prose that is no  *)
(* JSON, "lit" a JSON literal that is no object (42, null), any other k    *)
(* is a member "k": v of an object.                                         *)

Tok(k, v) == [k |-> k, v |-> v]
LB == Tok("{", "")
RB == Tok("}", "")
Junk == Tok("junk", "")
Lit == Tok("lit", "")

ReplyTokens ==
    {LB, RB, Junk, Lit, Tok("interaction", "yes"), Tok("interaction", "maybe"),
     Tok("severity", "high"), Tok("evidence", "made_up")}

\* j.choices?.[0]?.message?.content of an answer without content
NoContent == <<>>

ReplyYes == <<LB, Tok("interaction", "yes"), Tok("severity", "high"), RB>>
ReplyNo == <<Junk, LB, Tok("interaction", "no"), Tok("severity", "unknown"), RB>>
ReplyUnknown == <<LB, Tok("interaction", "unknown"), Tok("severity", "unknown"), RB>>
ReplyProse == <<Junk>>
\* an answer that names the fields the check function sets itself
ReplyOwnFields ==
    <<LB, Tok("drugs", "model"), Tok("interaction", "yes"), Tok("raw_model", "model"),
      Tok("evidence_count", "model"), RB>>

\* The contents the generative model can answer with, by the name the world of
\* a run gives them; "all" is every content of at most MaxReplyLen tokens.
RepliesOf(which) ==
    CASE which = "all" -> UNION {[1..n -> ReplyTokens] : n \in 0..MaxReplyLen}
      [] which = "answers" -> {ReplyYes, ReplyNo, ReplyProse}
      [] which = "unknown" -> {ReplyUnknown, NoContent}
      [] which = "yes" -> {ReplyYes}
      [] which = "own" -> {ReplyOwnFields, ReplyYes, ReplyProse}
      [] OTHER -> {}

\* modelResp.indexOf('{') and modelResp.lastIndexOf('}'), counted from 0, -1
\* when there is none
IndexOfLB(t) ==
    LET at == {i \in 1..Len(t) : t[i].k = "{"}
    IN IF at = {} THEN -1 ELSE (CHOOSE i \in at : \A j \in at : i <= j) - 1

LastIndexOfRB(t) ==
    LET at == {i \in 1..Len(t) : t[i].k = "}"}
    IN IF at = {} THEN -1 ELSE (CHOOSE i \in at : \A j \in at : i >= j) - 1

\* the text handed to JSON.parse
JsonText(modelResp) ==
    LET start == IndexOfLB(modelResp)
        end == LastIndexOfRB(modelResp)
    IN IF start >= 0 /\ end > start THEN SubSeq(modelResp, start + 1, end + 1)
       ELSE modelResp

IsMember(tok) == tok.k \notin {"{", "}", "junk", "lit"}

\* JSON.parse succeeds: an object of members, or a literal
IsJsonObject(t) ==
    /\ Len(t) >= 2
    /\ t[1].k = "{"
    /\ t[Len(t)].k = "}"
    /\ \A i \in 2..(Len(t) - 1) : IsMember(t[i])

IsJson(t) == IsJsonObject(t) \/ (Len(t) = 1 /\ t[1].k = "lit")

\* the evidence list a model answer carries: one excerpt of the model's own
ModelEvidence == <<[section |-> "warnings", content |-> X(40), source_url |-> "model"]>>

\* an object: its own keys and their values (a value whose key is not among the
\* keys is not there)
NoObject ==
    [keys |-> {}, drugs |-> <<>>, interaction |-> Undefined, severity |-> Undefined,
     explanation |-> Undefined, evidence |-> <<>>, confidence |-> Undefined,
     raw_model |-> <<>>, evidence_count |-> 0]

\* the values a model answer gives to drugs, raw_model and evidence_count
ModelDrugs == <<<<"b">>, <<"b">>>>
ModelRaw == <<Lit, Lit>>
ModelCount == 99

\* the value of the last member named k (JSON.parse keeps the last duplicate)
MemberValue(t, k) ==
    LET at == {i \in 1..Len(t) : t[i].k = k}
    IN t[CHOOSE i \in at : \A j \in at : i >= j].v

\* JSON.parse(jsonText) of parseable text; a literal has no own keys
JsonParse(t) ==
    IF ~IsJsonObject(t) THEN NoObject
    ELSE LET keys == {t[i].k : i \in 2..(Len(t) - 1)}
             str(k) == IF k \in keys THEN MemberValue(t, k) ELSE Undefined
         IN [NoObject EXCEPT
               !.keys = keys,
               !.interaction = str("interaction"),
               !.severity = str("severity"),
               !.explanation = str("explanation"),
               !.confidence = str("confidence"),
               !.evidence = IF "evidence" \in keys THEN ModelEvidence ELSE <<>>,
               !.drugs = IF "drugs" \in keys THEN ModelDrugs ELSE <<>>,
               !.raw_model = IF "raw_model" \in keys THEN ModelRaw ELSE <<>>,
               !.evidence_count = IF "evidence_count" \in keys THEN ModelCount ELSE 0]

\* snippets.slice(0,2)
FirstTwo(snippets) == SubSeq(snippets, 1, Min(2, Len(snippets)))

\* a fallback that cites every snippet
FallbackAll(explanation, snippets) ==
    [NoObject EXCEPT
       !.keys = {"interaction", "severity", "explanation", "evidence", "confidence"},
       !.interaction = "unknown", !.severity = "unknown",
       !.explanation = explanation, !.evidence = snippets,
       !.confidence = "0.0"]

\* the canonical result of the reasoner when there is no usable answer
Fallback(explanation, snippets) ==
    [NoObject EXCEPT
       !.keys = {"interaction", "severity", "explanation", "evidence", "confidence"},
       !.interaction = "unknown", !.severity = "unknown",
       !.explanation = explanation, !.evidence = FirstTwo(snippets),
       !.confidence = "0.0"]

\* lines 127-141: parsed, from the model's answer
ParseModel(modelResp, snippets) ==
    IF modelResp # <<>>
    THEN IF IsJson(JsonText(modelResp))
         THEN JsonParse(JsonText(modelResp))
         ELSE Fallback("model parse failed", snippets)
    ELSE Fallback("no model response", snippets)

\* { drugs: [a,b], ...parsed, raw_model: modelResp, evidence_count: snippets.length }
MakeResult(pair, parsed, modelResp, snippets) ==
    LET has(k) == k \in parsed.keys
    IN [keys |-> {"drugs", "raw_model", "evidence_count"} \cup parsed.keys,
        drugs |-> IF has("drugs") THEN parsed.drugs ELSE pair,
        interaction |-> parsed.interaction,
        severity |-> parsed.severity,
        explanation |-> parsed.explanation,
        evidence |-> parsed.evidence,
        confidence |-> parsed.confidence,
        raw_model |-> modelResp,
        evidence_count |-> Len(snippets)]

-----------------------------------------------------------------------------
(* The check function (check-interactions/index.ts).                       *)

\* body.drugs.slice(0, 12)
MaxDrugs == 12
\* retrieveEvidenceForPair(pairEmbedding, 6)
TopK == 6
\* (r.content||'').slice(0,600)
ExcerptLen == 600

\* the ingest slot that serves the check function's calls
CheckSlot == 1

Runs(name) == [i \in 1..Len(name) |-> [c |-> name[i], n |-> 1]]

\* `Drug interaction: ${a} WITH ${b}. Search for label warnings, ...`
QueryText(a, b) ==
    <<[c |-> "q", n |-> 18]>> \o Runs(a) \o <<[c |-> "q", n |-> 6]>> \o Runs(b)
      \o <<[c |-> "q", n |-> 80]>>

Distance(u, v) == IF u[1] >= v[1] THEN u[1] - v[1] ELSE v[1] - u[1]

\* search_drug_docs(query_embedding, top_k): the top_k rows nearest to the
\* query vector, nearest first, earlier rows first among equals
RECURSIVE Nearest(_, _, _, _)
Nearest(table, left, q, k) ==
    IF k = 0 \/ left = {} THEN <<>>
    ELSE LET best == CHOOSE i \in left : \A j \in left :
                        \/ Distance(table[i].embedding, q) < Distance(table[j].embedding, q)
                        \/ /\ Distance(table[i].embedding, q) = Distance(table[j].embedding, q)
                           /\ i <= j
         IN <<table[best]>> \o Nearest(table, left \ {best}, q, k - 1)

SearchDocs(table, q, k) == Nearest(table, 1..Len(table), q, k)

\* snippets that carry the whole content of their rows
SnippetsWhole(evidenceRows) ==
    [i \in 1..Len(evidenceRows) |->
       [section |-> evidenceRows[i].section,
        content |-> evidenceRows[i].content,
        source_url |-> evidenceRows[i].source_url]]

\* evidenceRows.map(r => ({ section, content: (r.content||'').slice(0,600), source_url }))
Snippets(evidenceRows) ==
    [i \in 1..Len(evidenceRows) |->
       [section |-> evidenceRows[i].section,
        content |-> TextSlice(evidenceRows[i].content, 0, ExcerptLen),
        source_url |-> evidenceRows[i].source_url]]

\* a guard that lets a single name pass
NoneGiven(drugs) == Len(drugs) < 1

\* the guard of line 58
TooFew(drugs) == Len(drugs) < 2

\* the list as it was sent
Uncapped(bodyDrugs) == bodyDrugs

\* body.drugs.slice(0, 12)
CapDrugs(bodyDrugs) == SubSeq(bodyDrugs, 1, Min(MaxDrugs, Len(bodyDrugs)))

\* the inner loop of "build pairs": j from i+1
RECURSIVE PairsFrom(_, _, _)
PairsFrom(drugs, i, j) ==
    IF j > Len(drugs) THEN <<>>
    ELSE <<<<drugs[i], drugs[j]>>>> \o PairsFrom(drugs, i, j + 1)

\* an inner loop that starts at i itself
FirstJSame(i) == i

\* the first value of j in the inner loop, for i
FirstJ(i) == i + 1

\* the outer loop of "build pairs"
RECURSIVE BuildPairs(_, _)
BuildPairs(drugs, i) ==
    IF i > Len(drugs) THEN <<>>
    ELSE PairsFrom(drugs, i, FirstJ(i)) \o BuildPairs(drugs, i + 1)

\* a rank that tells only 'yes' from the rest
rankYesOnly(r) == IF r.interaction = "yes" THEN 3 ELSE 1

\* rank of the final sort
rank(r) == IF r.interaction = "yes" THEN 3 ELSE IF r.interaction = "unknown" THEN 2 ELSE 1

\* the comparator of results.sort
Compare(r1, r2) == rank(r2) - rank(r1)

\* Array.prototype.sort is stable: an element comes behind the elements that
\* compare less than it and behind the earlier elements that compare equal
SortedPosition(results, m) ==
    1 + Cardinality({j \in 1..Len(results) :
                       \/ Compare(results[j], results[m]) < 0
                       \/ (j < m /\ Compare(results[j], results[m]) = 0)})

SortResults(results) ==
    LET at == [m \in 1..Len(results) |-> SortedPosition(results, m)]
    IN [q \in 1..Len(results) |-> results[CHOOSE m \in 1..Len(results) : at[m] = q]]

\* The request's position, its locals, its response, and its history:
\* embedLog, for every pair whose query embedding has settled, whether it
\* succeeded; ingestFailed, whether an ensureDrugIngested call has ended with
\* a failed ingestion; storeFailed, whether the table has answered a query of
\* the request with an error; settled, the awaited calls that have settled.
IdleCheck ==
    [pc |-> "idle", body |-> <<>>, drugs |-> <<>>, k |-> 0, pairs |-> <<>>, p |-> 0,
     pairEmbedding |-> NoEmbedding, snippets |-> <<>>, results |-> <<>>, resp |-> Null,
     embedLog |-> <<>>, ingestFailed |-> FALSE, storeFailed |-> FALSE,
     settled |-> 0]

\* a request that goes on without the call it has issued
Unawaited(c) == c

\* await: the request goes on when the call it has issued has settled
Awaited(c) == [c EXCEPT !.settled = @ + 1]

\* the ways ensureDrugIngested ends when the ingestion failed: the ingest
\* function was not reached (the fetch threw) or answered with a non-OK status
FailedIngestion == {"threw", "notok"}

\* ensureDrugIngested has ended for the drug in work
Ensured(c, how) == [c EXCEPT !.ingestFailed = @ \/ how \in FailedIngestion]

\* how ensureDrugIngested ends on the ingest function's response: "notok" on
\* a non-OK status (it returns false), else the status of the body
EnsureOutcome(resp) == IF resp.code # 200 THEN "notok" ELSE resp.kind

\* the own keys of the response's JSON body
BodyKeys(resp) == IF resp.code = 200 THEN {"interactions"} ELSE {}

NoCalls == [store |-> 0, ingest |-> 0, embed |-> 0, chat |-> 0]

Issue(kind) == calls' = [calls EXCEPT ![kind] = @ + 1]

\* the response of the check function
CheckResponse(code, interactions) == [code |-> code, interactions |-> interactions]

\* a pair loop that ends at the first failed query embedding
BreakOnEmbedError(p, pairs) == Len(pairs) + 1

\* the pair loop's continue after a failed query embedding: the next pair
AfterEmbedError(p, pairs) == p + 1

\* The pair loop goes on with pair p (its query embedding is issued), or, when
\* no pair is left, the results are sorted and the response is sent.
PairLoop(c, p) ==
    IF p <= Len(c.pairs)
    THEN /\ chk' = [c EXCEPT !.pc = "pair_embed", !.p = p]
         /\ Issue("embed")
    ELSE /\ chk' = [c EXCEPT !.pc = "done", !.p = Len(c.pairs),
                       !.resp = CheckResponse(200, SortResults(c.results))]
         /\ UNCHANGED calls

\* The ingestion loop goes on with drug k (its existence query is issued), or,
\* when no drug is left, the pairs are built and the pair loop starts.
EnsureLoop(c, k) ==
    IF k <= Len(c.drugs)
    THEN /\ chk' = [c EXCEPT !.pc = "ensure_select", !.k = k]
         /\ Issue("store")
    ELSE PairLoop([c EXCEPT !.k = Len(c.drugs), !.pairs = BuildPairs(c.drugs, 1)], 1)

\* A request arrives: the method check, the cap, the guard.
CheckReceive(method, bodyDrugs) ==
    /\ chk.pc = "idle"
    /\ IF method # "POST"
       THEN /\ chk' = [chk EXCEPT !.pc = "done", !.resp = CheckResponse(405, <<>>)]
            /\ UNCHANGED calls
       ELSE LET drugs == CapDrugs(bodyDrugs)
                c == [chk EXCEPT !.body = bodyDrugs, !.drugs = drugs]
            IN IF TooFew(drugs)
               THEN /\ chk' = [c EXCEPT !.pc = "done", !.resp = CheckResponse(200, <<>>)]
                    /\ UNCHANGED calls
               ELSE EnsureLoop(c, 1)
    /\ UNCHANGED <<drug_docs, ing, env, fn, dash, api>>

\* ensureDrugIngested, the existence query answers: a row exists (or no ingest
\* URL is configured) and the loop goes on, or the ingest function is called.
CheckEnsureSelect ==
    /\ chk.pc = "ensure_select"
    /\ \E storeOk \in env.store :
         LET data == IF storeOk THEN SelectIds(canonCheck(chk.drugs[chk.k])) ELSE Null
         IN IF (data # Null /\ Len(data) > 0) \/ ~env.ingestUrl
            THEN EnsureLoop(Ensured([Awaited(chk) EXCEPT !.storeFailed = @ \/ ~storeOk],
                                    IF data # Null /\ Len(data) > 0
                                    THEN "found" ELSE "nourl"), chk.k + 1)
            ELSE /\ chk' = [Awaited(chk) EXCEPT !.pc = "ensure_fetch",
                                                !.storeFailed = @ \/ ~storeOk]
                 /\ Issue("ingest")
    /\ UNCHANGED <<drug_docs, ing, env, fn, dash, api>>

\* the fetch of the ingest function: the ingest function receives the request,
\* or the fetch fails to connect (it throws and the loop catches it)
CheckIngestCall ==
    /\ chk.pc = "ensure_fetch"
    /\ \E reached \in env.reach :
         IF reached
         THEN /\ IngestReceive(CheckSlot, "check", "POST", chk.drugs[chk.k])
              /\ chk' = [chk EXCEPT !.pc = "ensure_wait"]
              /\ UNCHANGED calls
         ELSE /\ EnsureLoop(Ensured(Awaited(chk), "threw"), chk.k + 1)
              /\ UNCHANGED <<drug_docs, ing, env, fn, dash, api>>

\* the ingest function has answered; ensureDrugIngested returns and its value
\* is dropped
CheckEnsureReturn ==
    /\ chk.pc = "ensure_wait"
    /\ ing[CheckSlot].pc = "done"
    /\ ing' = [ing EXCEPT ![CheckSlot] = IdleIngest]
    /\ EnsureLoop(Ensured(Awaited(chk), EnsureOutcome(ing[CheckSlot].resp)), chk.k + 1)
    /\ UNCHANGED <<drug_docs, env, fn, dash, api>>

\* createEmbedding(queryText) settles: it failed and the pair is skipped, or
\* the search is issued
CheckPairEmbed ==
    /\ chk.pc = "pair_embed"
    /\ \E ok \in env.embed :
         LET pair == chk.pairs[chk.p]
             c == [Awaited(chk) EXCEPT !.embedLog = Append(@, ok)]
         IN IF ok
            THEN /\ chk' = [c EXCEPT !.pc = "pair_search",
                               !.pairEmbedding = VecOf(QueryText(pair[1], pair[2]))]
                 /\ Issue("store")
            ELSE PairLoop(c, AfterEmbedError(chk.p, chk.pairs))
    /\ UNCHANGED <<drug_docs, ing, env, fn, dash, api>>

\* the search answers (an error counts as no rows); the prompt is composed and
\* the generative model is called
CheckPairSearch ==
    /\ chk.pc = "pair_search"
    /\ \E storeOk \in env.store :
         LET evidenceRows == IF storeOk THEN SearchDocs(drug_docs, chk.pairEmbedding, TopK)
                             ELSE <<>>
         IN chk' = [Awaited(chk) EXCEPT !.pc = "pair_chat",
                                       !.snippets = Snippets(evidenceRows),
                                       !.storeFailed = @ \/ ~storeOk]
    /\ Issue("chat")
    /\ UNCHANGED <<drug_docs, ing, env, fn, dash, api>>

\* modelResp after the chat call: '' when the call threw or answered non-OK
ModelResp(outcome, content) == IF outcome = "ok" THEN content ELSE NoContent

\* the generative call settles; the answer is parsed, the result is pushed and
\* the loop goes on
CheckPairChat ==
    /\ chk.pc = "pair_chat"
    /\ \E outcome \in env.chat :
       \E content \in (IF outcome = "ok" THEN RepliesOf(env.replies) ELSE {NoContent}) :
         LET modelResp == ModelResp(outcome, content)
             parsed == ParseModel(modelResp, chk.snippets)
             result == MakeResult(chk.pairs[chk.p], parsed, modelResp, chk.snippets)
         IN PairLoop([Awaited(chk) EXCEPT !.results = Append(@, result)], chk.p + 1)
    /\ UNCHANGED <<drug_docs, ing, env, fn, dash, api>>

-----------------------------------------------------------------------------
(* The dashboard page (src/frontend/src/pages/NewDashboard.tsx): its React  *)
(* state, and the requests it has sent to the API that are not answered     *)
(* yet.  A patient is its id and the number of its medications.             *)

\* the page is not open
NoDash == [pc |-> "closed"]

Patients == {"p1", "p2"}

\* useState<Patient | null>(null), and a patient
NoPatient == [id |-> "none", medications |-> 0]
Patient(id, medications) == [id |-> id, medications |-> medications]

\* useState(null) of interactionResults and addDrugResults, and a response:
\* the patient and the medications it was computed for
NoResults == [patientId |-> "none", medications |-> 0]
ResultsFor(patientId, medications) == [patientId |-> patientId, medications |-> medications]

\* The page has rendered with the patients query loaded: the initial values
\* of the useState hooks, the patients as the API has them (server) and as
\* the page has them (patientsData), and no request in flight.
DashOpen(medications) ==
    [pc |-> "open", server |-> medications, patientsData |-> medications,
     selectedPatient |-> NoPatient, isCheckingInteractions |-> FALSE,
     interactionResults |-> NoResults, isAddingDrug |-> FALSE,
     addDrugResults |-> NoResults,
     checks |-> {}, adds |-> {}, removes |-> {}, stale |-> FALSE]

\* handlePatientSelect: a patient of the select list is chosen
handlePatientSelect(patientId) ==
    /\ dash.pc = "open"
    /\ dash' = [dash EXCEPT
                  !.selectedPatient = Patient(patientId, dash.patientsData[patientId]),
                  !.interactionResults = NoResults,
                  !.addDrugResults = NoResults]
    /\ UNCHANGED <<functions, api>>

\* handleCheckInteractions, by the button, which is disabled while a check
\* runs or the patient has fewer than 2 medications: the mutation is started
handleCheckInteractions ==
    /\ dash.pc = "open"
    /\ dash.selectedPatient # NoPatient
    /\ ~dash.isCheckingInteractions
    /\ dash.selectedPatient.medications >= 2
    /\ dash' = [dash EXCEPT
                  !.isCheckingInteractions = TRUE,
                  !.checks = @ \cup {ResultsFor(dash.selectedPatient.id,
                                                dash.selectedPatient.medications)}]
    /\ UNCHANGED <<functions, api>>

\* checkInteractionsMutation.onSuccess, onError: a check in flight is answered
CheckSettled ==
    /\ dash.pc = "open"
    /\ \E c \in dash.checks, ok \in BOOLEAN :
         dash' = [dash EXCEPT
                    !.checks = @ \ {c},
                    !.interactionResults = IF ok THEN c ELSE @,
                    !.isCheckingInteractions = FALSE]
    /\ UNCHANGED <<functions, api>>

\* handleAddDrug, up to its await: the request is sent
handleAddDrug ==
    /\ dash.pc = "open"
    /\ dash.selectedPatient # NoPatient
    /\ Cardinality(dash.adds \cup dash.removes) < MaxInFlight
    /\ dash' = [dash EXCEPT !.isAddingDrug = TRUE,
                            !.adds = @ \cup {dash.selectedPatient.id}]
    /\ UNCHANGED <<functions, api>>

\* handleAddDrug after its await: the API has added the drug and answers with
\* the patient, or the request failed
AddSettled ==
    /\ dash.pc = "open"
    /\ \E id \in dash.adds, ok \in BOOLEAN :
         IF ok /\ dash.server[id] < MaxMeds
         THEN LET medications == dash.server[id] + 1
              IN dash' = [dash EXCEPT
                            !.adds = @ \ {id},
                            !.server[id] = medications,
                            !.addDrugResults = ResultsFor(id, medications),
                            !.selectedPatient = Patient(id, medications),
                            !.stale = TRUE,
                            !.isAddingDrug = FALSE]
         ELSE dash' = [dash EXCEPT !.adds = @ \ {id}, !.isAddingDrug = FALSE]
    /\ UNCHANGED <<functions, api>>

\* handleRemoveDrug, up to its await: the request is sent
handleRemoveDrug ==
    /\ dash.pc = "open"
    /\ dash.selectedPatient # NoPatient
    /\ dash.selectedPatient.medications > 0
    /\ Cardinality(dash.adds \cup dash.removes) < MaxInFlight
    /\ dash' = [dash EXCEPT !.removes = @ \cup {dash.selectedPatient.id}]
    /\ UNCHANGED <<functions, api>>

\* handleRemoveDrug after its await: the API has removed the drug and answers
\* with the patient, or the request failed
RemoveSettled ==
    /\ dash.pc = "open"
    /\ \E id \in dash.removes, ok \in BOOLEAN :
         IF ok /\ dash.server[id] > 0
         THEN LET medications == dash.server[id] - 1
              IN dash' = [dash EXCEPT
                            !.removes = @ \ {id},
                            !.server[id] = medications,
                            !.selectedPatient = Patient(id, medications),
                            !.stale = TRUE,
                            !.addDrugResults = NoResults,
                            !.interactionResults = NoResults]
         ELSE dash' = [dash EXCEPT !.removes = @ \ {id}]
    /\ UNCHANGED <<functions, api>>

\* the patients query, invalidated by an added or removed drug, is fetched
\* again
PatientsRefetched ==
    /\ dash.pc = "open"
    /\ dash.stale
    /\ dash' = [dash EXCEPT !.patientsData = dash.server, !.stale = FALSE]
    /\ UNCHANGED <<functions, api>>

-----------------------------------------------------------------------------
(* The API server's POST /api/patients/:id/drugs (src/api/server.js).  A   *)
(* medication is its position in the patient's list.                       *)

\* no response yet, and res.status(code).json(...) / res.json(...)
NoResponse == [code |-> 0, interactionResults |-> <<>>, interactionsFound |-> 0,
               totalChecks |-> 0]
ErrorResponse(code) == [NoResponse EXCEPT !.code = code]

\* The request's position, its locals (the drug name, the medications of the
\* patient row read, the medication in work, the results), its response, and
\* the patient's medications in the table.
NoApi ==
    [pc |-> "idle", stored |-> 0, drugName |-> "", medications |-> 0, existingMed |-> 0,
     interactionResults |-> <<>>, resp |-> NoResponse]

\* the entry pushed for an answer of the ML service
MlEntry(existingMed, mlResult) ==
    [existingDrug |-> existingMed, severity |-> mlResult, method |-> "ml"]

\* the entry pushed when the call of the ML service threw
FallbackEntry(existingMed) ==
    [existingDrug |-> existingMed, severity |-> "unknown", method |-> "fallback"]

\* interactionResults.filter(r => r.severity !== 'mild').length
InteractionsFound(results) ==
    Cardinality({n \in 1..Len(results) : results[n].severity # "mild"})

\* The loop over patient.medications goes on with the next medication (the ML
\* service is called), or the response is sent.
MlLoop(a, existingMed) ==
    IF existingMed <= a.medications
    THEN api' = [a EXCEPT !.pc = "ml", !.existingMed = existingMed]
    ELSE api' = [a EXCEPT !.pc = "done",
                   !.resp = [code |-> 200, interactionResults |-> a.interactionResults,
                             interactionsFound |-> InteractionsFound(a.interactionResults),
                             totalChecks |-> Len(a.interactionResults)]]

\* A request arrives: the drug name is checked and the patient is queried.
ApiReceive ==
    /\ api.pc = "idle"
    /\ \E drugName \in {"", "drug"} :
         IF drugName = ""
         THEN api' = [api EXCEPT !.pc = "done", !.resp = ErrorResponse(400)]
         ELSE api' = [api EXCEPT !.pc = "select", !.drugName = drugName]
    /\ UNCHANGED <<functions, dash>>

\* The patient query answers: no patient (or an error), or the patient row;
\* then the update is issued.
ApiSelect ==
    /\ api.pc = "select"
    /\ \E found \in BOOLEAN :
         IF found
         THEN api' = [api EXCEPT !.pc = "update", !.medications = api.stored]
         ELSE api' = [api EXCEPT !.pc = "done", !.resp = ErrorResponse(404)]
    /\ UNCHANGED <<functions, dash>>

\* The update answers: an error is thrown and caught by the handler's catch
\* (500), or the drug is stored and the loop over the medications starts.
ApiUpdate ==
    /\ api.pc = "update"
    /\ \E ok \in BOOLEAN :
         IF ok
         THEN MlLoop([api EXCEPT !.stored = api.medications + 1], 1)
         ELSE api' = [api EXCEPT !.pc = "done", !.resp = ErrorResponse(500)]
    /\ UNCHANGED <<functions, dash>>

\* The call of the ML service settles: an OK answer is pushed, an answer
\* that is not OK is passed over, a call that threw gets the fallback entry.
ApiMl ==
    /\ api.pc = "ml"
    /\ \E outcome \in {"throw", "notok", "ok"}, mlResult \in {"mild", "severe"} :
         LET pushed == IF outcome = "ok"
                       THEN <<MlEntry(api.existingMed, mlResult)>>
                       ELSE IF outcome = "throw"
                       THEN <<FallbackEntry(api.existingMed)>>
                       ELSE <<>>
         IN MlLoop([api EXCEPT !.interactionResults = @ \o pushed], api.existingMed + 1)
    /\ UNCHANGED <<functions, dash>>

-----------------------------------------------------------------------------
(* Specifications.                                                         *)

Methods == {"POST", "GET"}
BodyDrugs == {NameA, NameA2, NameB, NameBlank, NameEmpty}

\* The outside world of a run: the answers each kind of external call can get
\* (store, embed, reach: whether it succeeds), the contents the generative
\* model can produce (a name of RepliesOf), whether INGEST_FUNCTION_URL is
\* set, and what clients send (the drug names of ingest requests, the drug
\* lists of check requests).
AnyEnv ==
    [store |-> BOOLEAN, fetch |-> {"throw", "notok", "ok"}, embed |-> BOOLEAN,
     reach |-> BOOLEAN, chat |-> {"throw", "notok", "ok"}, replies |-> "answers",
     ingestUrl |-> TRUE, names |-> BodyDrugs, lists |-> {}]

\* a world without failures
GoodEnv ==
    [store |-> {TRUE}, fetch |-> {"ok"}, embed |-> {TRUE}, reach |-> {TRUE},
     chat |-> {"ok"}, replies |-> "yes", ingestUrl |-> TRUE, names |-> {},
     lists |-> {}]

\* a client posts to the ingest function
ClientIngest(r) ==
    /\ \A s \in IngestSlots : s < r => ing[s].pc # "idle"
    /\ \E method \in Methods, bodyDrug \in env.names :
         IngestReceive(r, "client", method, bodyDrug)
    /\ UNCHANGED <<chk, calls>>

\* The worlds of the ingest function's own clients: any name and any outcome
\* of every external call, or drug "1", an unknown drug and no failure.
IngestEnvs == {AnyEnv, [GoodEnv EXCEPT !.names = {NameOne, NameNone}]}

InitIngest ==
    /\ drug_docs = <<>>
    /\ ing = [r \in IngestSlots |-> IdleIngest]
    /\ chk = IdleCheck
    /\ env \in IngestEnvs
    /\ calls = NoCalls
    /\ fn = NoCall
    /\ dash = NoDash
    /\ api = NoApi

NextIngest ==
    \E r \in IngestSlots :
        \/ ClientIngest(r)
        \/ IngestSelect(r)
        \/ IngestFetch(r)
        \/ IngestEmbed(r)
        \/ IngestInsert(r)

\* the ingest function with clients of its own
SpecIngest == InitIngest /\ [][NextIngest]_vars


\* a client posts to the check function
ClientCheck ==
    \E method \in Methods, bodyDrugs \in env.lists : CheckReceive(method, bodyDrugs)

NextCheck ==
    \/ ClientCheck
    \/ CheckEnsureSelect
    \/ CheckIngestCall
    \/ IngestSelect(CheckSlot)
    \/ IngestFetch(CheckSlot)
    \/ IngestEmbed(CheckSlot)
    \/ IngestInsert(CheckSlot)
    \/ CheckEnsureReturn
    \/ CheckPairEmbed
    \/ CheckPairSearch
    \/ CheckPairChat

CheckNames == {NameA, NameB}

\* the drug lists of at most MaxShortList names
ShortLists == UNION {[1..n -> CheckNames] : n \in 0..MaxShortList}

InitWith(e) ==
    /\ drug_docs = <<>>
    /\ ing = [r \in IngestSlots |-> IdleIngest]
    /\ chk = IdleCheck
    /\ env = e
    /\ calls = NoCalls
    /\ fn = NoCall
    /\ dash = NoDash
    /\ api = NoApi

\* The worlds of a check request on a short list: the model answers yes, no or
\* prose (with and without INGEST_FUNCTION_URL); the embedding and generative
\* models can fail; the table, the label provider and the ingest function can
\* fail.
CheckEnvs ==
    {[GoodEnv EXCEPT !.replies = "answers"],
     [GoodEnv EXCEPT !.replies = "answers", !.ingestUrl = FALSE],
     [GoodEnv EXCEPT !.embed = BOOLEAN, !.chat = {"throw", "notok", "ok"},
                     !.replies = "unknown"],
     [GoodEnv EXCEPT !.store = BOOLEAN, !.fetch = {"throw", "notok", "ok"},
                     !.reach = BOOLEAN]}

InitCheck == \E e \in CheckEnvs : InitWith([e EXCEPT !.lists = ShortLists])

\* one check request on a short list
Spec == InitCheck /\ [][NextCheck]_vars

\* one check request for one pair, with every answer of the generative model
\* (or with answers that name the check function's own fields); the table
\* answers every call of the run or none
InitReason ==
    \E storeOk \in BOOLEAN, replies \in {"all", "own"} :
        InitWith([GoodEnv EXCEPT !.store = {storeOk},
                                 !.chat = {"throw", "notok", "ok"}, !.replies = replies,
                                 !.lists = {<<NameA, NameB>>, <<NameB, NameB>>,
                                            <<NameA2, NameA>>}])

SpecReason == InitReason /\ [][NextCheck]_vars

\* the i-th of the drug names "1", "11", "111", ...: names without labels
Numbered(i) == [j \in 1..i |-> "1"]

\* the list of n names: drug "b" first, then numbered names
LongList(n) == [i \in 1..n |-> IF i = 1 THEN NameB ELSE Numbered(i)]

\* The worlds of a check request on a long list: every external call gets one
\* answer, the same through the run.
CapEnvs ==
    {GoodEnv,
     [GoodEnv EXCEPT !.store = {FALSE}],
     [GoodEnv EXCEPT !.embed = {FALSE}],
     [GoodEnv EXCEPT !.reach = {FALSE}],
     [GoodEnv EXCEPT !.fetch = {"notok"}, !.chat = {"throw"}]}

\* the drug lists of a long-list run: every long list and every short list
\* lists with a name that is empty
EmptyNameLists == {<<NameEmpty>>, <<NameB, NameEmpty>>}

CapLists == {LongList(n) : n \in 0..MaxLongList} \cup ShortLists \cup EmptyNameLists

InitCap == \E e \in CapEnvs : InitWith([e EXCEPT !.lists = CapLists])

\* one check request on a list of up to MaxLongList names
SpecCap == InitCap /\ [][NextCheck]_vars

\* the texts of at most MaxTextLen characters, of letters and blanks
Texts ==
    UNION {{[m \in 1..n |-> [c |-> f[m], n |-> 1]] : f \in [1..n -> {"x", " "}]} :
             n \in 0..MaxTextLen}

InitChunk ==
    /\ drug_docs = <<>>
    /\ ing = [r \in IngestSlots |-> IdleIngest]
    /\ chk = IdleCheck
    /\ env = GoodEnv
    /\ calls = NoCalls
    /\ \E text \in Texts, chunkSize \in 1..MaxChunk, overlap \in 0..MaxChunk :
         fn = ChunkCalled(text, chunkSize, overlap)
    /\ dash = NoDash
    /\ api = NoApi

NextChunk == ChunkLoop \/ ChunkReturn

\* one call of chunkText
SpecChunk == InitChunk /\ [][NextChunk]_vars

\* the names of at most MaxNameLen characters: letters of both cases,
\* punctuation and blanks
Names == UNION {[1..n -> {"A", "a", "!", " "}] : n \in 0..MaxNameLen}

InitCanon ==
    /\ drug_docs = <<>>
    /\ ing = [r \in IngestSlots |-> IdleIngest]
    /\ chk = IdleCheck
    /\ env = GoodEnv
    /\ calls = NoCalls
    /\ \E s \in Names, t \in Names : fn = CanonCalled(s, t)
    /\ dash = NoDash
    /\ api = NoApi

NextCanon == CanonIngest \/ CanonCheck

\* two names keyed by both functions
SpecCanon == InitCanon /\ [][NextCanon]_vars

\* the medications of the patients when the page opens
InitDash ==
    /\ drug_docs = <<>>
    /\ ing = [r \in IngestSlots |-> IdleIngest]
    /\ chk = IdleCheck
    /\ env = GoodEnv
    /\ calls = NoCalls
    /\ fn = NoCall
    /\ api = NoApi
    /\ \E medications \in [Patients -> 0..MaxMeds] : dash = DashOpen(medications)

NextDash ==
    \/ \E patientId \in Patients : handlePatientSelect(patientId)
    \/ handleCheckInteractions
    \/ CheckSettled
    \/ handleAddDrug
    \/ AddSettled
    \/ handleRemoveDrug
    \/ RemoveSettled
    \/ PatientsRefetched

\* the dashboard page and its user
SpecDash == InitDash /\ [][NextDash]_vars

InitApi ==
    /\ drug_docs = <<>>
    /\ ing = [r \in IngestSlots |-> IdleIngest]
    /\ chk = IdleCheck
    /\ env = GoodEnv
    /\ calls = NoCalls
    /\ fn = NoCall
    /\ dash = NoDash
    /\ \E medications \in 0..MaxPrior : api = [NoApi EXCEPT !.stored = medications]

NextApi == ApiReceive \/ ApiSelect \/ ApiUpdate \/ ApiMl

\* one request that adds a drug to a patient
SpecApi == InitApi /\ [][NextApi]_vars

-----------------------------------------------------------------------------
(* Ingestion: idempotence and persisted embeddings (SpecIngest).           *)

\* the elements of a sequence
Range(seq) == {seq[n] : n \in 1..Len(seq)}

\* requests of the ingest function that have returned
Returned == {r \in IngestSlots : ing[r].pc = "done"}

\* r1 had returned when r2 arrived, both passed validation with the same key
Sequential(r1, r2) ==
    /\ r1 \in Returned
    /\ r2 \in Returned
    /\ r1 \in ing[r2].prior
    /\ ing[r1].key # <<>>
    /\ ing[r1].key = ing[r2].key

\* C1: of two sequential ingest calls with the same drug_key, the first of
\* which left at least one chunk of the key in the table, the second returns
\* 'exists' and the key has no more chunks after it than after the first.
C1_Idempotent ==
    \A r1, r2 \in IngestSlots :
        (Sequential(r1, r2) /\ ing[r1].endCount >= 1) =>
            /\ ing[r2].resp.kind = "exists"
            /\ ing[r2].endCount <= ing[r1].endCount

\* C2: every row of the table has a non-null embedding, in every state, also
\* after an ingestion that was aborted by an embedding or insert failure.
C2_EmbeddingsPresent ==
    \A n \in 1..Len(drug_docs) : drug_docs[n].embedding # NoEmbedding

\* an ingestion that was aborted after its first batch had been inserted
C2_AbortedAfterInsert ==
    \E r \in Returned :
        /\ ing[r].resp.code = 500
        /\ ing[r].inserted >= 1
        /\ CountKey(drug_docs, ing[r].key) >= 1

\* the rows of the table with a drug_key
RowsOfKey(k) == LET hasKey(row) == row.drug_key = k IN SelectSeq(drug_docs, hasKey)

\* the times a row is in the table
Copies(row) == Cardinality({n \in 1..Len(drug_docs) : drug_docs[n] = row})

\* r1 and r2 are two requests that both returned 'ingested' for the same
\* drug_key after the table had answered the existence query of each
BothIngested(r1, r2) ==
    /\ r1 # r2
    /\ r1 \in Returned
    /\ r2 \in Returned
    /\ ing[r1].key = ing[r2].key
    /\ ing[r1].resp.kind = "ingested"
    /\ ing[r2].resp.kind = "ingested"
    /\ ing[r1].answered
    /\ ing[r2].answered

\* C12: two ingest requests for one drug_key that both passed the existence
\* check and both ran to the end were concurrent (neither had returned when
\* the other arrived), both inserted, and the key's chunk set is in the table
\* twice: nothing keeps the second writer out.
C12_RaceDuplicates ==
    \A r1, r2 \in IngestSlots :
        BothIngested(r1, r2) =>
            /\ r1 \notin ing[r2].prior
            /\ r2 \notin ing[r1].prior
            /\ ing[r1].inserted = ing[r1].resp.chunks
            /\ ing[r2].inserted = ing[r2].resp.chunks
            /\ CountKey(drug_docs, ing[r1].key) >= ing[r1].resp.chunks + ing[r2].resp.chunks
            /\ \A row \in Range(RowsOfKey(ing[r1].key)) : Copies(row) >= 2

\* both requests of a race have returned 'ingested' and the 8 chunks of drug
\* "a" are in the table twice
C12_Raced ==
    \E r1, r2 \in IngestSlots :
        /\ BothIngested(r1, r2)
        /\ ing[r1].key = <<"a">>
        /\ CountKey(drug_docs, <<"a">>) = 16

\* the keys of the drugs that have labels
LabelKeys == {<<"a">>, <<"b">>, <<"1">>}

\* the rows an ingestion of a key stages, with their embeddings
StagedByKey == [k \in LabelKeys |-> WithEmbeddings(StageRows(k, FdaResults(k)))]

StagedFor(k) == IF k \in LabelKeys THEN StagedByKey[k] ELSE <<>>

\* no other request has worked on the key of request r
OnlyOn(r) == \A s \in IngestSlots : s # r => ing[s].key # ing[r].key

\* C13: an ingestion that fails in batch k ends with an error; the rows of the
\* batches before k are in the table, no row of batch k or of a later batch
\* is, and no embedding call or insert of the ingestion is outstanding.  While
\* an ingestion is in its batch loop, exactly the batches before the one in
\* work have been inserted.
C13_AbortKeepsEarlierBatches ==
    \A r \in IngestSlots :
        /\ ing[r].pc \in {"embedding", "inserting"} =>
             /\ ing[r].i % batch = 0
             /\ ing[r].inserted = ing[r].i
             /\ ing[r].outstanding <= batch
        /\ (ing[r].pc = "done" /\ ing[r].resp.code = 500) =>
             /\ ing[r].resp.kind \in {"internal", "error"}
             /\ ing[r].i % batch = 0
             /\ ing[r].inserted = ing[r].i
             /\ ing[r].key \in LabelKeys
             /\ ing[r].i < Len(StagedFor(ing[r].key))
             /\ ing[r].outstanding = 0
             /\ ing[r].toInsert = <<>>
             /\ OnlyOn(r) =>
                  RowsOfKey(ing[r].key) = SubSeq(StagedFor(ing[r].key), 1, ing[r].i)

\* the insert of the second batch of drug "a" failed: the 6 rows of the first
\* batch are in the table, the 2 rows of the second are not
C13_SecondBatchFailed ==
    \E r \in Returned :
        /\ ing[r].resp = Response(500, "error", 0)
        /\ ing[r].i = batch
        /\ OnlyOn(r)
        /\ Len(RowsOfKey(ing[r].key)) = batch
        /\ Len(StagedFor(ing[r].key)) > batch

\* the windows of a text of len characters: the starts 0, step, 2 step, ...
\* below len, for step = ChunkSize - ChunkOverlap
WindowCount(len) ==
    IF len = 0 THEN 0
    ELSE (len + (ChunkSize - ChunkOverlap) - 1) \div (ChunkSize - ChunkOverlap)

\* the length of a section's text in a label, 0 when the label has none
SectionLen(lab, sec) ==
    IF sec \notin DOMAIN lab.secs THEN 0
    ELSE IF lab.secs[sec].isArray THEN TextLen(TextJoin(lab.secs[sec].parts))
    ELSE TextLen(lab.secs[sec].parts[1])

RECURSIVE SumWindows(_, _, _)
SumWindows(labels, l, s) ==
    IF l > Len(labels) THEN 0
    ELSE IF s > Len(sections) THEN SumWindows(labels, l + 1, 1)
    ELSE WindowCount(SectionLen(labels[l], sections[s])) + SumWindows(labels, l, s + 1)

\* the windows over all (label, section) pairs of a key's labels
WindowTotal(k) == SumWindows(FdaResults(k), 1, 1)

\* the content lengths of the key's rows of a section, in table order
SectionLengths(k, sec) ==
    LET rows == RowsOfKey(k)
        isSec(row) == row.section = sec
        hit == SelectSeq(rows, isSec)
    IN [n \in 1..Len(hit) |-> hit[n].content_len]

\* C14: a request that returns 'ingested' with count n, with no other ingest
\* of its key, has staged one chunk per chunker window of every (label,
\* section) text; exactly these n chunks are in the table for the key, each
\* with an embedding.  A 1500-character section gives 2 chunks, of 1000 and
\* 700 characters.
C14_IngestedCount ==
    \A r \in IngestSlots :
        (ing[r].pc = "done" /\ ing[r].resp.kind = "ingested" /\ OnlyOn(r)) =>
            LET k == ing[r].key
                n == ing[r].resp.chunks
            IN /\ ing[r].resp.code = 200
               /\ n = WindowTotal(k)
               /\ n >= 1
               /\ CountKey(drug_docs, k) = n
               /\ ing[r].inserted = n
               /\ \A row \in Range(RowsOfKey(k)) :
                    row.embedding # NoEmbedding /\ row.content_len <= ChunkSize
               /\ \A lab \in Range(FdaResults(k)) :
                    SectionLen(lab, "drug_interactions") = 1500 =>
                        SectionLengths(k, "drug_interactions") = <<1000, 700>>

\* drug "1", one label with a single 1500-character drug_interactions
\* section, has been ingested: 2 chunks, of 1000 and 700 characters
C14_SingleSection ==
    \E r \in Returned :
        /\ ing[r].key = <<"1">>
        /\ ing[r].resp = Response(200, "ingested", 2)
        /\ CountKey(drug_docs, <<"1">>) = 2
        /\ drug_docs[1].content_len = 1000
        /\ drug_docs[2].content_len = 700

-----------------------------------------------------------------------------
(* The reasoner: fallback, validity of results, evidence (SpecReason).     *)

\* the request has answered and its list had one pair, so that chk.snippets
\* are the snippets retrieved for the one result's pair
OnePairDone == chk.pc = "done" /\ Len(chk.pairs) = 1 /\ Len(chk.results) = 1

\* there is no usable answer: the call failed or the content is empty (the
\* model's text is '' either way), or the text from its first '{' to its last
\* '}' does not parse
NoUsableAnswer(modelResp) == modelResp = NoContent \/ ~IsJson(JsonText(modelResp))

\* C3: when the generation call fails, returns empty content or returns text
\* whose first-'{'-to-last-'}' substring does not parse, the pair's result has
\* interaction 'unknown', severity 'unknown', confidence 0.0 and the first two
\* retrieved snippets as evidence, and the request answers normally.
C3_Fallback ==
    OnePairDone =>
        /\ chk.resp.code = 200
        /\ Len(chk.resp.interactions) = 1
        /\ LET res == chk.results[1]
           IN NoUsableAnswer(res.raw_model) =>
                /\ res.interaction = "unknown"
                /\ res.severity = "unknown"
                /\ res.confidence = "0.0"
                /\ res.evidence = SubSeq(chk.snippets, 1, Min(2, Len(chk.snippets)))
                /\ {"interaction", "severity", "confidence", "evidence"} \subseteq res.keys

\* an answer with braces that does not parse, for a pair with more than two
\* retrieved snippets
C3_ParseFailed ==
    /\ OnePairDone
    /\ chk.results[1].raw_model # NoContent
    /\ IndexOfLB(chk.results[1].raw_model) >= 0
    /\ ~IsJson(JsonText(chk.results[1].raw_model))
    /\ Len(chk.snippets) > 2
    /\ Len(chk.results[1].evidence) = 2

\* C4: every result has an interaction of yes|no|unknown and a severity of
\* high|medium|low|unknown, whatever the generative model returns.
C4_ResultsValid ==
    \A n \in 1..Len(chk.results) :
        /\ "interaction" \in chk.results[n].keys
        /\ chk.results[n].interaction \in {"yes", "no", "unknown"}
        /\ "severity" \in chk.results[n].keys
        /\ chk.results[n].severity \in {"high", "medium", "low", "unknown"}

\* C5: every evidence item of a result is one of the snippets retrieved for
\* the result's pair.
C5_EvidenceRetrieved ==
    OnePairDone => Range(chk.results[1].evidence) \subseteq Range(chk.snippets)

-----------------------------------------------------------------------------
(* The pair loop: enumeration, skipped pairs, final order, guard and cap.  *)

\* the pairs have been built
PairsBuilt == chk.pc \in {"pair_embed", "pair_search", "pair_chat", "done"} /\ Len(chk.drugs) >= 2

\* the position of the pair (i, j), i < j, in the lexicographic order of the
\* index pairs of n names: behind the n - a pairs of every a < i, the
\* (j - i)-th pair of i
Position(n, i, j) == (i - 1) * n - (i * (i - 1)) \div 2 + (j - i)

\* C6: the pairs of the (capped) list d are exactly (d[i], d[j]) for i < j,
\* each once, in lexicographic order of (i, j): n(n-1)/2 pairs, and the pair
\* in work is the one at the loop's position.
C6_PairEnumeration ==
    PairsBuilt =>
        LET n == Len(chk.drugs)
        IN /\ 2 * Len(chk.pairs) = n * (n - 1)
           /\ \A i \in 1..n : \A j \in (i + 1)..n :
                chk.pairs[Position(n, i, j)] = <<chk.drugs[i], chk.drugs[j]>>
           /\ Len(chk.embedLog) = (IF chk.pc = "pair_embed" THEN chk.p - 1 ELSE chk.p)

\* a list of three different names has been answered: (A,B), (A,C), (B,C)
C6_ThreeNames ==
    /\ chk.pc = "done"
    /\ Len(chk.drugs) = 3
    /\ Cardinality(Range(chk.drugs)) = 3
    /\ chk.pairs = <<<<chk.drugs[1], chk.drugs[2]>>, <<chk.drugs[1], chk.drugs[3]>>,
                     <<chk.drugs[2], chk.drugs[3]>>>>
    /\ Len(chk.results) = 3

\* positions of the pairs whose query embedding succeeded, in order
RECURSIVE Embedded(_, _)
Embedded(log, m) ==
    IF m > Len(log) THEN <<>>
    ELSE (IF log[m] THEN <<m>> ELSE <<>>) \o Embedded(log, m + 1)

\* pairs whose query is embedded and whose result is not pushed yet
InWork == IF chk.pc \in {"pair_search", "pair_chat"} THEN 1 ELSE 0

\* C7: there is exactly one result for every pair whose query embedding
\* succeeded and none for a pair whose embedding failed; a failure does not
\* stop the loop, so that every pair has been tried when the request answers.
C7_OneResultPerEmbeddedPair ==
    PairsBuilt =>
        LET ok == Embedded(chk.embedLog, 1)
        IN /\ Len(chk.results) = Len(ok) - InWork
           /\ \A m \in 1..Len(chk.results) : chk.results[m].drugs = chk.pairs[ok[m]]
           /\ chk.pc = "done" =>
                /\ Len(chk.embedLog) = Len(chk.pairs)
                /\ Len(chk.resp.interactions) = Len(ok)

\* a pair was skipped and a later pair has its result
C7_SkippedThenEmitted ==
    /\ chk.pc = "done"
    /\ \E m1, m2 \in 1..Len(chk.embedLog) :
         m1 < m2 /\ ~chk.embedLog[m1] /\ chk.embedLog[m2]
    /\ Len(chk.results) >= 1

\* the results of a list with this interaction value, in their order
OfClass(list, class) ==
    LET isIn(r) == r.interaction \in class IN SelectSeq(list, isIn)

\* C8: the returned list has the 'yes' results first, then the 'unknown'
\* results, then the others, each group in pair-enumeration order.
C8_SortedStable ==
    chk.pc = "done" /\ chk.resp.code = 200 =>
        LET out == chk.resp.interactions
            others == {"no", "maybe", Undefined}
        IN /\ Len(out) = Len(chk.results)
           /\ out = OfClass(chk.results, {"yes"}) \o OfClass(chk.results, {"unknown"})
                      \o OfClass(chk.results, others)

\* three results were pushed in the order no, unknown, yes, or two 'unknown'
\* results for different pairs behind a 'no'
C8_Reordered ==
    /\ chk.pc = "done"
    /\ Len(chk.results) = 3
    /\ chk.results[1].interaction = "no"
    /\ chk.results[2].interaction = "unknown"
    /\ chk.results[3].interaction \in {"yes", "unknown"}
    /\ chk.results[2].drugs # chk.results[3].drugs

\* C9: a request with fewer than two names is answered at once with an empty
\* interactions list: no ingestion, no store access, no embedding call and no
\* generation call is issued.
C9_TooFewNames ==
    Len(chk.body) < 2 =>
        /\ chk.pc \in {"idle", "done"}
        /\ chk.pc = "done" /\ chk.resp.code = 200 => chk.resp.interactions = <<>>
        /\ calls = NoCalls
        /\ drug_docs = <<>>
        /\ \A r \in IngestSlots : ing[r] = IdleIngest

\* a request with a single name has been answered
C9_SingleName ==
    /\ chk.pc = "done"
    /\ chk.resp.code = 200
    /\ Len(chk.body) = 1

\* the first 12 names of the request's list
FirstTwelve == {chk.body[n] : n \in 1..Min(12, Len(chk.body))}

\* C10: only the first 12 names of the list are processed: no other name is
\* ingested or is part of a pair or a result, and there are at most 66 results.
C10_Cap ==
    /\ Range(chk.drugs) \subseteq FirstTwelve
    /\ Len(chk.drugs) <= 12
    /\ calls.ingest <= 12
    /\ ing[CheckSlot].key # <<>> => ing[CheckSlot].key \in {canon(d) : d \in FirstTwelve}
    /\ \A n \in 1..Len(drug_docs) : drug_docs[n].drug_key \in {canon(d) : d \in FirstTwelve}
    /\ \A m \in 1..Len(chk.pairs) : Range(chk.pairs[m]) \subseteq FirstTwelve
    /\ \A m \in 1..Len(chk.results) : Range(chk.results[m].drugs) \subseteq FirstTwelve
    /\ Len(chk.pairs) <= 66
    /\ Len(chk.results) <= 66

\* a request with 13 different names has been answered with 66 results
C10_Thirteen ==
    /\ chk.pc = "done"
    /\ Len(chk.body) = 13
    /\ chk.body[13] \notin FirstTwelve
    /\ Len(chk.resp.interactions) = 66

-----------------------------------------------------------------------------
(* Ingestion failures during a check.                                      *)

\* C11: a failed ingestion of one drug does not abort the check: ingestion is
\* attempted for every drug, every pair is processed, and the response reports
\* the failure.
C11_IngestionFailureReported ==
    (chk.pc = "done" /\ Len(chk.drugs) >= 2 /\ chk.ingestFailed) =>
        /\ chk.k = Len(chk.drugs)
        /\ Len(chk.embedLog) = Len(chk.pairs)
        /\ chk.resp.code = 200
        /\ BodyKeys(chk.resp) # {"interactions"}

-----------------------------------------------------------------------------
(* The chunker by itself (SpecChunk).                                      *)

\* a call with 0 <= overlap < chunkSize has returned
ChunkReturned == fn.pc = "returned" /\ fn.overlap < fn.chunkSize

\* ceil(a / b) for b > 0
CeilDiv(a, b) == IF a <= 0 THEN 0 ELSE (a + b - 1) \div b

\* C15: for 0 <= overlap < size, a text of len characters gives
\* ceil((len - overlap) / (size - overlap)) chunks, and exactly one chunk when
\* 0 < len <= size.
C15_ChunkCount ==
    ChunkReturned =>
        LET len == TextLen(fn.text)
        IN /\ len > fn.overlap =>
                Len(fn.out) = CeilDiv(len - fn.overlap, fn.chunkSize - fn.overlap)
           /\ (0 < len /\ len <= fn.chunkSize) => Len(fn.out) = 1
           /\ fn.out = chunkText(fn.text, fn.chunkSize, fn.overlap)

\* C16: for overlap < size the windows start at 0, size - overlap,
\* 2 (size - overlap), ..., each is at most size long and becomes one chunk,
\* together they cover every position of the text, only the last window is
\* shorter than size, and an empty text gives no chunk.
C16_Windows ==
    ChunkReturned =>
        LET len == TextLen(fn.text)
            w == fn.windows
        IN /\ Len(fn.out) = Len(w)
           /\ \A m \in 1..Len(w) :
                /\ w[m].from = (m - 1) * (fn.chunkSize - fn.overlap)
                /\ w[m].to - w[m].from <= fn.chunkSize
                /\ TextLen(fn.out[m]) <= w[m].to - w[m].from
           /\ \A pos \in 0..(len - 1) : \E m \in 1..Len(w) : w[m].from <= pos /\ pos < w[m].to
           /\ \A m \in 1..(Len(w) - 1) : w[m].to - w[m].from = fn.chunkSize
           /\ len = 0 => fn.out = <<>>

\* C17: a call with overlap >= size on a text that is not empty is rejected
\* before the loop: no window is taken and no chunk is pushed.
C17_OverlapRejected ==
    (fn.pc # "none" /\ fn.overlap >= fn.chunkSize /\ TextLen(fn.text) > 0) =>
        /\ fn.out = <<>>
        /\ fn.i = 0

-----------------------------------------------------------------------------
(* Canonical keys (SpecCanon).                                             *)

\* punctuation: neither a letter or digit of either case, nor white space
IsPunct(c) == ~IsAlnum(ToLower(c)) /\ ~IsSpace(c)

\* a name without its letter case, its punctuation and its surplus blanks
Plain(s) ==
    LET Kept(c) == ~IsPunct(c)
    IN ReplaceRuns(TrimName(SelectSeq(LowerCase(s), Kept)), "space", FALSE)

\* two names differ only in letter case, punctuation or amount of white space
DifferOnlyInForm(s, t) == Plain(s) = Plain(t)

\* C18: canon(canon(s)) = canon(s); two names that differ only in letter
\* case, punctuation or amount of white space get the same key; the check
\* function's canon gives the key the ingest function's canon gives.
C18_CanonKeys ==
    fn.pc = "keyed" =>
        /\ fn.again = fn.key
        /\ DifferOnlyInForm(fn.s, fn.t) => fn.key = fn.otherKey
        /\ fn.checkKey = fn.key

-----------------------------------------------------------------------------
(* The label fetch's failures (SpecIngest).                                *)

\* C19: an ingestion answers 'no-labels-found' only when the label provider
\* answered its fetch and had no result; when the provider answered with an
\* error or the fetch failed, the ingestion ends with an error.
C19_FetchFailureIsError ==
    \A r \in IngestSlots :
        ing[r].pc = "done" =>
            /\ (ing[r].resp.code = 200 /\ ing[r].resp.kind = "no-labels-found") =>
                  ing[r].fetched = "ok"
            /\ ing[r].fetched \in {"throw", "notok"} => ing[r].resp.code >= 500

-----------------------------------------------------------------------------
(* Malformed input (SpecCap).                                              *)

\* the list of a check request is malformed
Malformed(bodyDrugs) ==
    Len(bodyDrugs) < 2 \/ \E n \in 1..Len(bodyDrugs) : bodyDrugs[n] = NameEmpty

\* C20: an ingest request without a name (empty or blank) is answered 400
\* before any store access, label fetch, embedding call or insert; a check
\* request whose list has fewer than two names or contains an empty name
\* issues no external call: no store access, no call of the ingest function,
\* no embedding call and no generation call.
C20_MalformedRejected ==
    /\ \A r \in IngestSlots :
          (ing[r].pc = "done" /\ ing[r].resp.code = 400) =>
              /\ ing[r].key = <<>>
              /\ ~ing[r].answered
              /\ ing[r].fetched = "none"
              /\ ing[r].inserted = 0
    /\ (chk.pc # "idle" /\ Malformed(chk.body)) =>
          /\ chk.pc = "done"
          /\ calls = NoCalls
          /\ ing[CheckSlot] = IdleIngest
          /\ drug_docs = <<>>

-----------------------------------------------------------------------------
(* What a failure does to the response (SpecCap, SpecIngest).              *)

\* the status is none of 2xx
HardError(code) == code < 200 \/ code >= 300

\* the table answered the existence query of ingest request r with an error
SelectFailed(r) == ing[r].pc # "idle" /\ ing[r].pc # "select" /\ ing[r].key # <<>>
                     /\ ~ing[r].answered

\* C21: a request during which the table answered with an error (existence
\* query, search, insert) is answered with a status that is not 2xx, by the
\* ingest function and by the check function.
C21_StoreFailureIsHardError ==
    /\ \A r \in IngestSlots :
          (ing[r].pc = "done" /\ SelectFailed(r)) => HardError(ing[r].resp.code)
    /\ (chk.pc = "done" /\ chk.storeFailed) => HardError(chk.resp.code)

\* the request was malformed: a method other than POST, or no drug name
Malrequest(code) == code \in {400, 405}

\* the insert of ingest request r was answered with an error
InsertFailed(r) == ing[r].pc = "done" /\ ing[r].resp.kind = "error"

\* C22: a well-formed POST request is answered with a status that is not 2xx
\* only when the table answered one of its queries with an error: a failed
\* label fetch, embedding call or generation call ends in a 2xx response.
C22_OnlyStoreFailureIsHardError ==
    /\ \A r \in IngestSlots :
          (ing[r].pc = "done" /\ ~Malrequest(ing[r].resp.code)
             /\ HardError(ing[r].resp.code)) => (SelectFailed(r) \/ InsertFailed(r))
    /\ (chk.pc = "done" /\ ~Malrequest(chk.resp.code) /\ HardError(chk.resp.code)) =>
          chk.storeFailed

-----------------------------------------------------------------------------
(* Retrieval for a pair (Spec).                                            *)

\* the pairs whose query embedding has been requested
PairsStarted == Len(chk.embedLog) + (IF chk.pc = "pair_embed" THEN 1 ELSE 0)

\* C23: one embedding call per pair taken up and, after each that succeeded,
\* one search of the table; the snippets of a pair are the TopK nearest rows
\* (all rows when the table has fewer, none when the search failed), each
\* cut to ExcerptLen characters; a result's evidence_count is the number of
\* snippets of its pair.
C23_RetrievalBounded ==
    PairsBuilt =>
        /\ calls.embed = PairsStarted
        /\ calls.store = Len(chk.drugs) + Len(Embedded(chk.embedLog, 1))
        /\ Len(chk.snippets) <= TopK
        /\ \A n \in 1..Len(chk.snippets) : TextLen(chk.snippets[n].content) <= ExcerptLen
        /\ chk.pc = "pair_chat" =>
              \/ Len(chk.snippets) = Min(TopK, Len(drug_docs))
              \/ chk.storeFailed /\ chk.snippets = <<>>
        /\ \A m \in 1..Len(chk.results) : chk.results[m].evidence_count <= TopK
        /\ (chk.pc # "pair_chat" /\ chk.results # <<>>) =>
              chk.results[Len(chk.results)].evidence_count = Len(chk.snippets)

\* a pair has its result with six snippets, one of them cut to 600 characters
C23_SixCutSnippets ==
    /\ chk.pc = "done"
    /\ chk.results # <<>>
    /\ chk.results[Len(chk.results)].evidence_count = TopK
    /\ Len(drug_docs) > TopK
    /\ \E n \in 1..Len(chk.snippets) : TextLen(chk.snippets[n].content) = ExcerptLen

-----------------------------------------------------------------------------
(* The batches of an ingestion (SpecIngest).                               *)

\* C24: an ingestion has at most 6 embedding calls outstanding, those of the
\* batch in work; they are issued when every earlier batch has been inserted,
\* and the batch is handed to the table when all of them have completed, each
\* row with its embedding.
C24_BatchesJoined ==
    \A r \in IngestSlots :
        /\ ing[r].outstanding <= batch
        /\ ing[r].outstanding > 0 => ing[r].pc = "embedding"
        /\ ing[r].pc = "embedding" =>
              /\ ing[r].outstanding = Min(batch, Len(ing[r].rows) - ing[r].i)
              /\ ing[r].inserted = ing[r].i
              /\ ing[r].toInsert = <<>>
        /\ ing[r].pc = "inserting" =>
              /\ ing[r].outstanding = 0
              /\ ing[r].inserted = ing[r].i
              /\ Len(ing[r].toInsert) = Min(batch, Len(ing[r].rows) - ing[r].i)
              /\ \A n \in 1..Len(ing[r].toInsert) :
                    ing[r].toInsert[n].embedding # NoEmbedding

\* the calls of a second batch are outstanding, the six rows of the first
\* batch are in the table
C24_SecondBatchInFlight ==
    \E r \in IngestSlots :
        /\ ing[r].pc = "embedding"
        /\ ing[r].i = batch
        /\ ing[r].outstanding >= 1
        /\ ing[r].inserted = batch
        /\ CountKey(drug_docs, ing[r].key) >= batch

-----------------------------------------------------------------------------
(* The order of a check request's calls (Spec).                            *)

\* the external calls the check request has issued
Issued == calls.store + calls.ingest + calls.embed + calls.chat

\* C25: a check request has at most one external call outstanding; while a
\* drug is being ingested no pair has been taken up, and when the first pair
\* query is embedded every drug has been dealt with and the ingest function
\* has answered; a pair is taken up when every earlier pair has its result or
\* has been skipped.
C25_Sequential ==
    /\ Issued - chk.settled \in {0, 1}
    /\ chk.pc \in {"idle", "done"} => Issued = chk.settled
    /\ ing[CheckSlot].pc # "idle" => chk.pc = "ensure_wait"
    /\ chk.pc \in {"ensure_select", "ensure_fetch", "ensure_wait"} =>
          /\ calls.embed = 0 /\ calls.chat = 0
          /\ chk.results = <<>> /\ chk.embedLog = <<>>
          /\ calls.store = chk.k
    /\ PairsBuilt =>
          /\ chk.k = Len(chk.drugs)
          /\ calls.ingest <= Len(chk.drugs)
    /\ chk.pc \in {"pair_embed", "pair_search", "pair_chat"} =>
          /\ calls.embed = chk.p
          /\ Len(chk.embedLog) = chk.p - (IF chk.pc = "pair_embed" THEN 1 ELSE 0)
          /\ calls.chat = Len(chk.results) + (IF chk.pc = "pair_chat" THEN 1 ELSE 0)
          /\ Len(chk.results) = Len(Embedded(chk.embedLog, 1)) - InWork

\* a request of three pairs has been answered after two calls of the ingest
\* function
C25_ThreePairsAnswered ==
    /\ chk.pc = "done"
    /\ calls.ingest >= 2
    /\ Len(chk.pairs) = 3
    /\ Len(chk.results) = 3
    /\ chk.settled >= 11

-----------------------------------------------------------------------------
(* The table only grows (SpecCap).                                         *)

\* C26: every step leaves the rows of the table as they are, in their places;
\* a step that adds rows is the insert of an ingest request, and adds the
\* batch that request handed over.  The check function has no write of its
\* own.
C26_StoreOnlyGrows ==
    [][/\ Len(drug_docs') >= Len(drug_docs)
       /\ SubSeq(drug_docs', 1, Len(drug_docs)) = drug_docs
       /\ drug_docs' # drug_docs =>
             /\ \E r \in IngestSlots :
                   /\ ing[r].pc = "inserting"
                   /\ drug_docs' = drug_docs \o ing[r].toInsert
             /\ chk'.pc = chk.pc
             /\ calls' = calls]_vars

\* a check has been answered after two ingestions, each of which added rows
C26_TwoIngestionsStored ==
    /\ chk.pc = "done"
    /\ calls.ingest >= 2
    /\ \E m, n \in 1..Len(drug_docs) : drug_docs[m].drug_key # drug_docs[n].drug_key

-----------------------------------------------------------------------------
(* A partly ingested drug (SpecIngest).                                    *)

\* C27: an ingest call that arrives when an earlier call with the same key
\* has returned and left at least one chunk of the key inserts nothing and
\* returns 'exists'; when the earlier call was aborted after some of its
\* batches, the key keeps the chunks of those batches only.
C27_NeverCompleted ==
    \A r1, r2 \in IngestSlots :
        (Sequential(r1, r2) /\ ing[r1].endCount >= 1) =>
            /\ ing[r2].inserted = 0
            /\ ing[r2].resp = Response(200, "exists", 0)
            /\ (ing[r1].resp.code = 500 /\ OnlyOn(r1) /\ OnlyOn(r2)) =>
                  CountKey(drug_docs, ing[r1].key) = ing[r1].inserted

-----------------------------------------------------------------------------
(* The fields the check function sets itself (SpecReason).                 *)

\* C28: the result of a pair has the pair as its drugs, the model's answer as
\* its raw_model and the number of the pair's snippets as its evidence_count,
\* whatever members the model's answer has.
C28_OwnFieldsKept ==
    OnePairDone =>
        LET r == chk.results[1]
        IN /\ r.drugs = chk.pairs[1]
           /\ r.raw_model \in RepliesOf(env.replies) \cup {NoContent}
           /\ r.interaction = ParseModel(r.raw_model, chk.snippets).interaction
           /\ r.evidence_count = Len(chk.snippets)
           /\ {"drugs", "raw_model", "evidence_count"} \subseteq r.keys

-----------------------------------------------------------------------------
(* The dashboard's results (SpecDash).                                     *)

\* the interaction results are on the page
ResultsShown == dash.addDrugResults = NoResults /\ dash.interactionResults # NoResults

\* C29: the interaction results on the page are those of a check that was
\* started for the selected patient; selecting a patient takes the results
\* off the page.
C29_ResultsOfSelectedPatient ==
    ResultsShown => dash.interactionResults.patientId = dash.selectedPatient.id

-----------------------------------------------------------------------------
(* Adding a drug to a patient (SpecApi).                                   *)

\* C30: a request that succeeds answers with one entry for every medication
\* the patient had, in their order, each the ML service's answer or the
\* fallback entry with severity 'unknown'; totalChecks is their number.
C30_OneEntryPerMedication ==
    (api.pc = "done" /\ api.resp.code = 200) =>
        /\ Len(api.resp.interactionResults) = api.medications
        /\ \A n \in 1..Len(api.resp.interactionResults) :
              LET e == api.resp.interactionResults[n]
              IN /\ e.existingDrug = n
                 /\ e.method = "fallback" => e.severity = "unknown"
        /\ api.resp.totalChecks = api.medications
        /\ api.stored = api.medications + 1

====
